---- MODULE Spec2Model ----
(***************************************************************************)
(* Model of src/model/positional_bucket.py: compute_positional_bucket, the *)
(* relative-position bucket of every (query, key) token pair of a table    *)
(* sequence, and main, which runs it on a fixed input.                     *)
(*                                                                         *)
(* Tensors are modelled for one batch item: torch.bmm multiplies each      *)
(* batch item on its own and the unsqueeze/broadcast subtraction pairs     *)
(* positions of the same batch item only, so entry [b,i,j] depends on the  *)
(* attributes of tokens i and j of item b alone. A tensor of shape         *)
(* (1, L) is a sequence of length L, one of shape (1, L, L) a sequence of  *)
(* sequences. Attribute tensors hold integer values (stored as floats in   *)
(* main); a comparison with x.5 is written on the doubled value.           *)
(***************************************************************************)
EXTENDS Integers, Sequences, FiniteSets

VARIABLES pc, query_length, key_length, type_ids, row_ids, col_ids,
          num_buckets, positional_buckets, equal

vars == <<pc, query_length, key_length, type_ids, row_ids, col_ids,
          num_buckets, positional_buckets, equal>>

(* Bounds of the inputs drawn by the model: the longest sequence and the   *)
(* largest num_buckets.                                                    *)
MaxLen == 2
MaxBuckets == 7

(* The values the arguments are drawn from. Type ids: 1 and 2 are meta, 3  *)
(* is cell, 0 and 4 lie below and above them. Row and column ids: the code *)
(* reads them only through abs(difference) < 0.5, two values give both     *)
(* outcomes (main adds larger ids). num_buckets: from 3, where reserved    *)
(* labels are negative or collide, up to valid values (6 and more).        *)
Lengths == 1..MaxLen
TypeIds == 0..4
Ids == 0..1
NumBuckets == 3..MaxBuckets

(* bool.float(): True -> 1.0, False -> 0.0 *)
Float(b) == IF b THEN 1 ELSE 0

(* bool tensor times an integer weight: True counts as 1, False as 0 *)
Times(w, b) == IF b THEN w ELSE 0

Abs(x) == IF x < 0 THEN -x ELSE x

(* is_meta with the lower comparison left out: type id 0 counts as meta *)
is_meta_noLowerBound(t, i) == 2 * t[i] < 5

(* is_meta = logical_and(type_ids < 2.5, type_ids > 0.5), entry i *)
is_meta(t, i) == 2 * t[i] < 5 /\ 2 * t[i] > 1

(* is_cell as a range test: every type id from 3 up counts as a cell *)
is_cell_atLeast3(t, i) == t[i] >= 3

(* is_cell = type_ids == 3, entry i *)
is_cell(t, i) == t[i] = 3

(* bmm(unsqueeze(is_meta.float(), 2), unsqueeze(is_meta.float(), 1)) > 0.5 *)
meta_mask(t, i, j) == 2 * (Float(is_meta(t, i)) * Float(is_meta(t, j))) > 1

cell_mask(t, i, j) == 2 * (Float(is_cell(t, i)) * Float(is_cell(t, j))) > 1

meta_to_cell_mask(t, i, j) == 2 * (Float(is_meta(t, i)) * Float(is_cell(t, j))) > 1

(* cell_to_meta_mask with both factors taken at the query position *)
cell_to_meta_mask_sameIndex(t, i, j) ==
    2 * (Float(is_cell(t, i)) * Float(is_meta(t, i))) > 1

cell_to_meta_mask(t, i, j) == 2 * (Float(is_cell(t, i)) * Float(is_meta(t, j))) > 1

(* row_diff without torch.abs *)
row_diff_noAbs(r, i, j) == r[i] - r[j]

(* abs(row_ids.unsqueeze(-1) - row_ids.unsqueeze(1)), entry [i][j] *)
row_diff(r, i, j) == Abs(r[i] - r[j])

col_diff(c, i, j) == Abs(c[i] - c[j])

(* logical_and(row_diff + col_diff < 0.5, cell_mask) *)
same_cell_mask(t, r, c, i, j) ==
    2 * (row_diff(r, i, j) + col_diff(c, i, j)) < 1 /\ cell_mask(t, i, j)

(* same_row_mask without the logical_and with cell_mask *)
same_row_mask_noCellMask(t, r, i, j) == 2 * row_diff(r, i, j) < 1

(* logical_and(row_diff < 0.5, cell_mask) *)
same_row_mask(t, r, i, j) == 2 * row_diff(r, i, j) < 1 /\ cell_mask(t, i, j)

(* logical_and(col_diff < 0.5, cell_mask) *)
same_col_mask(t, c, i, j) == 2 * col_diff(c, i, j) < 1 /\ cell_mask(t, i, j)

(* the -1 term without same_cell_mask; the same_col term without the       *)
(* exclusion of same_cell_mask                                             *)
term1_metaOnly(t, r, c, i, j) == meta_mask(t, i, j)
term5_noSameCellExclusion(t, r, c, i, j) == same_col_mask(t, c, i, j)

(* The six boolean tensors that the weighted sum adds up, entry [i][j]. *)
term1(t, r, c, i, j) == meta_mask(t, i, j) \/ same_cell_mask(t, r, c, i, j)
term2(t, r, c, i, j) == meta_to_cell_mask(t, i, j)
term3(t, r, c, i, j) == cell_to_meta_mask(t, i, j)
term4(t, r, c, i, j) == same_row_mask(t, r, i, j) /\ ~same_cell_mask(t, r, c, i, j)
term5(t, r, c, i, j) == same_col_mask(t, c, i, j) /\ ~same_cell_mask(t, r, c, i, j)
term6(t, r, c, i, j) ==
    cell_mask(t, i, j) /\ ~(same_col_mask(t, c, i, j) \/ same_row_mask(t, r, i, j))

(* the weighted sum with the weights of the same-row and same-col terms    *)
(* exchanged                                                               *)
bucket_entry_swappedWeights(t, r, c, nb, i, j) ==
      Times(-1, term1(t, r, c, i, j))
    + Times(nb - 5, term2(t, r, c, i, j))
    + Times(nb - 4, term3(t, r, c, i, j))
    + Times(nb - 2, term4(t, r, c, i, j))
    + Times(nb - 3, term5(t, r, c, i, j))
    + Times(nb - 1, term6(t, r, c, i, j))

(* Entry [i][j] of the weighted sum of the six tensors. *)
bucket_entry(t, r, c, nb, i, j) ==
      Times(-1, term1(t, r, c, i, j))
    + Times(nb - 5, term2(t, r, c, i, j))
    + Times(nb - 4, term3(t, r, c, i, j))
    + Times(nb - 3, term4(t, r, c, i, j))
    + Times(nb - 2, term5(t, r, c, i, j))
    + Times(nb - 1, term6(t, r, c, i, j))

(* The function: query_length and key_length are parameters that the body  *)
(* never reads; the shape of the result is that of the attribute tensors.  *)
compute_positional_bucket(ql, kl, t, r, c, nb) ==
    [i \in 1..Len(t) |-> [j \in 1..Len(t) |-> bucket_entry(t, r, c, nb, i, j)]]

(* The input and the expected output written in main. *)
main_type_ids == <<1, 1, 2, 3, 3, 3, 3, 3>>
main_row_ids == <<0, 0, 1, 2, 2, 2, 3, 3>>
main_col_ids == <<0, 0, 0, 0, 0, 1, 0, 1>>
main_num_buckets == 100
main_query_length == 8
main_key_length == 8
expected_positional_buckets ==
    << <<-1, -1, -1, 95, 95, 95, 95, 95>>,
       <<-1, -1, -1, 95, 95, 95, 95, 95>>,
       <<-1, -1, -1, 95, 95, 95, 95, 95>>,
       <<96, 96, 96, -1, -1, 97, 98, 99>>,
       <<96, 96, 96, -1, -1, 97, 98, 99>>,
       <<96, 96, 96, 97, 97, -1, 99, 98>>,
       <<96, 96, 96, 98, 98, 99, -1, 97>>,
       <<96, 96, 96, 99, 99, 98, 97, -1>> >>

Init ==
    /\ pc = "idle"
    /\ query_length = 0
    /\ key_length = 0
    /\ type_ids = <<>>
    /\ row_ids = <<>>
    /\ col_ids = <<>>
    /\ num_buckets = 0
    /\ positional_buckets = <<>>
    /\ equal = FALSE

(* One call of compute_positional_bucket, from the arguments to the return. *)
Call(ql, kl, t, r, c, nb) ==
    /\ pc = "idle"
    /\ pc' = "returned"
    /\ query_length' = ql
    /\ key_length' = kl
    /\ type_ids' = t
    /\ row_ids' = r
    /\ col_ids' = c
    /\ num_buckets' = nb
    /\ positional_buckets' = compute_positional_bucket(ql, kl, t, r, c, nb)
    /\ equal' = equal

(* A self-attention call: both lengths are the length of the sequences. *)
SelfAttentionCall ==
    /\ pc = "idle"
    /\ \E L \in Lengths, nb \in NumBuckets :
           \E t \in [1..L -> TypeIds], r \in [1..L -> Ids], c \in [1..L -> Ids] :
               Call(L, L, t, r, c, nb)

(* A call whose key_length is any length, equal to query_length or not. *)
AnyLengthCall ==
    /\ pc = "idle"
    /\ \E L \in Lengths, kl \in Lengths, nb \in NumBuckets :
           \E t \in [1..L -> TypeIds], r \in [1..L -> Ids], c \in [1..L -> Ids] :
               Call(L, kl, t, r, c, nb)

(* main: the call on the fixed input and the comparison it prints. *)
main ==
    /\ pc = "idle"
    /\ pc' = "main"
    /\ query_length' = main_query_length
    /\ key_length' = main_key_length
    /\ type_ids' = main_type_ids
    /\ row_ids' = main_row_ids
    /\ col_ids' = main_col_ids
    /\ num_buckets' = main_num_buckets
    /\ positional_buckets' =
           compute_positional_bucket(main_query_length, main_key_length,
               main_type_ids, main_row_ids, main_col_ids, main_num_buckets)
    /\ equal' = (positional_buckets' = expected_positional_buckets)

Next == SelfAttentionCall \/ main

Spec == Init /\ [][Next]_vars

NextAnyLength == AnyLengthCall \/ main

SpecAnyLength == Init /\ [][NextAnyLength]_vars

(***************************************************************************)
(* The vocabulary of the properties: the last call's sequence, the role    *)
(* of a token read off its integer type id, and the relation of a pair.    *)
(***************************************************************************)
Returned == pc # "idle"
Pos == 1..Len(type_ids)
Meta(i) == type_ids[i] \in {1, 2}
Cell(i) == type_ids[i] = 3
HasRole(i) == Meta(i) \/ Cell(i)
SameRow(i, j) == row_ids[i] = row_ids[j]
SameCol(i, j) == col_ids[i] = col_ids[j]

OrderedLabel(i, j) ==
    IF (Meta(i) /\ Meta(j)) \/ (Cell(i) /\ Cell(j) /\ SameRow(i, j) /\ SameCol(i, j))
    THEN -1
    ELSE IF Meta(i) /\ Cell(j) THEN num_buckets - 5
    ELSE IF Cell(i) /\ Meta(j) THEN num_buckets - 4
    ELSE IF Cell(i) /\ Cell(j) /\ SameRow(i, j) THEN num_buckets - 3
    ELSE IF Cell(i) /\ Cell(j) /\ SameCol(i, j) THEN num_buckets - 2
    ELSE IF Cell(i) /\ Cell(j) THEN num_buckets - 1
    ELSE 0

(* C1: every entry [i][j] of the returned matrix is the label the ordered  *)
(* rules a..g choose for the pair (query i, key j).                        *)
C1_OrderedRules ==
    Returned =>
        \A i \in Pos, j \in Pos : positional_buckets[i][j] = OrderedLabel(i, j)

(* A returned call on two cell tokens of one column and different rows.    *)
C1_Witness ==
    /\ pc = "returned"
    /\ type_ids = <<3, 3>>
    /\ row_ids = <<0, 1>>
    /\ col_ids = <<1, 1>>
    /\ positional_buckets[1][2] = num_buckets - 2

(* C2: on the input written in main the function returns exactly the 8x8   *)
(* matrix written in main.                                                 *)
C2_MainFixture ==
    pc = "main" => positional_buckets = expected_positional_buckets

C2_Witness ==
    /\ pc = "main"
    /\ type_ids = main_type_ids
    /\ num_buckets = 100
    /\ Len(positional_buckets) = 8
    /\ equal

(* C3: with num_buckets >= 6 every entry is -1, 0 or one of               *)
(* num_buckets-5 .. num_buckets-1, and an entry is 0 only when one of the  *)
(* two tokens is neither meta nor cell.                                    *)
C3_LabelSpace ==
    (Returned /\ num_buckets >= 6) =>
        \A i \in Pos, j \in Pos :
            /\ positional_buckets[i][j] \in
                   {-1, 0} \cup ((num_buckets - 5)..(num_buckets - 1))
            /\ positional_buckets[i][j] = 0 => (~HasRole(i) \/ ~HasRole(j))

(* A returned call with num_buckets >= 6 where a cell token meets a token  *)
(* without a role and the entry is 0.                                      *)
C3_Witness ==
    /\ pc = "returned"
    /\ num_buckets >= 6
    /\ \E i \in Pos, j \in Pos :
           Cell(i) /\ ~HasRole(j) /\ positional_buckets[i][j] = 0

(* C4: for two tokens that both have a role and num_buckets >= 6, the      *)
(* label of (i, j) equals that of (j, i) when both are meta or both are    *)
(* cells, and label(i, j) = num_buckets-5 exactly when                     *)
(* label(j, i) = num_buckets-4.                                            *)
C4_SymmetryAndSwap ==
    (Returned /\ num_buckets >= 6) =>
        \A i \in Pos, j \in Pos :
            (HasRole(i) /\ HasRole(j)) =>
                /\ ((Meta(i) /\ Meta(j)) \/ (Cell(i) /\ Cell(j))) =>
                       positional_buckets[i][j] = positional_buckets[j][i]
                /\ positional_buckets[i][j] = num_buckets - 5
                       <=> positional_buckets[j][i] = num_buckets - 4

(* A returned call with num_buckets >= 6 where a meta token and a cell     *)
(* token meet: num_buckets-5 one way, num_buckets-4 the other way.         *)
C4_Witness ==
    /\ pc = "returned"
    /\ num_buckets >= 6
    /\ \E i \in Pos, j \in Pos :
           /\ Meta(i) /\ Cell(j)
           /\ positional_buckets[i][j] = num_buckets - 5
           /\ positional_buckets[j][i] = num_buckets - 4

(* C5: a call with query_length # key_length does not return a matrix.     *)
C5_LengthMismatchRejected ==
    pc = "returned" => query_length = key_length

(* C6: a call with num_buckets < 6 does not return a matrix.               *)
C6_SmallNumBucketsRejected ==
    pc = "returned" => num_buckets >= 6

(* C7: the diagonal entry of a cell token is -1, whatever its row and      *)
(* column ids.                                                             *)
C7_CellDiagonal ==
    Returned => \A i \in Pos : Cell(i) => positional_buckets[i][i] = -1

(* A returned call with a cell token whose row and column ids are not 0.   *)
C7_Witness ==
    /\ pc = "returned"
    /\ \E i \in Pos :
           /\ Cell(i) /\ row_ids[i] # 0 /\ col_ids[i] # 0
           /\ positional_buckets[i][i] = -1

(* How many of the six summed boolean tensors are true at entry [i][j] of  *)
(* the last call.                                                          *)
ActiveTerms(i, j) ==
      Float(term1(type_ids, row_ids, col_ids, i, j))
    + Float(term2(type_ids, row_ids, col_ids, i, j))
    + Float(term3(type_ids, row_ids, col_ids, i, j))
    + Float(term4(type_ids, row_ids, col_ids, i, j))
    + Float(term5(type_ids, row_ids, col_ids, i, j))
    + Float(term6(type_ids, row_ids, col_ids, i, j))

(* The entry is the weight of each tensor that is true at [i][j].          *)
EntryIsWeight(i, j) ==
    /\ term1(type_ids, row_ids, col_ids, i, j) => positional_buckets[i][j] = -1
    /\ term2(type_ids, row_ids, col_ids, i, j) =>
           positional_buckets[i][j] = num_buckets - 5
    /\ term3(type_ids, row_ids, col_ids, i, j) =>
           positional_buckets[i][j] = num_buckets - 4
    /\ term4(type_ids, row_ids, col_ids, i, j) =>
           positional_buckets[i][j] = num_buckets - 3
    /\ term5(type_ids, row_ids, col_ids, i, j) =>
           positional_buckets[i][j] = num_buckets - 2
    /\ term6(type_ids, row_ids, col_ids, i, j) =>
           positional_buckets[i][j] = num_buckets - 1

(* C8: for every pair at most one of the six summed masks is true, exactly *)
(* one when both tokens are meta or cell, and the entry is the weight of   *)
(* the true mask (0 when none is), never a sum of two weights.             *)
C8_OneActiveTerm ==
    Returned =>
        \A i \in Pos, j \in Pos :
            /\ ActiveTerms(i, j) <= 1
            /\ (HasRole(i) /\ HasRole(j)) => ActiveTerms(i, j) = 1
            /\ EntryIsWeight(i, j)
            /\ ActiveTerms(i, j) = 0 => positional_buckets[i][j] = 0

(* A returned call with two cells of one row and one column, where the     *)
(* same-row, same-col and same-cell masks are all true.                    *)
C8_Witness ==
    /\ pc = "returned"
    /\ \E i \in Pos, j \in Pos :
           /\ i # j
           /\ same_row_mask(type_ids, row_ids, i, j)
           /\ same_col_mask(type_ids, col_ids, i, j)
           /\ term1(type_ids, row_ids, col_ids, i, j)
           /\ ActiveTerms(i, j) = 1

(* The ids with those of the tokens that are not cell tokens set to 0.     *)
CellIdsOnly(ids) == [i \in Pos |-> IF type_ids[i] = 3 THEN ids[i] ELSE 0]

(* C9: the row and column ids of tokens that are not cell tokens do not    *)
(* influence the result. Every call returns what the call returns whose    *)
(* non-cell tokens have row and column id 0; two calls that differ only in *)
(* the ids of non-cell tokens share that call, so their results are equal. *)
C9_NonCellIdsIgnored ==
    Returned =>
        positional_buckets =
            compute_positional_bucket(query_length, key_length, type_ids,
                CellIdsOnly(row_ids), CellIdsOnly(col_ids), num_buckets)

(* A returned call where two tokens that are not cells have different row  *)
(* ids and different column ids, not all 0.                                *)
C9_Witness ==
    /\ pc = "returned"
    /\ \E i \in Pos, j \in Pos :
           /\ ~Cell(i) /\ ~Cell(j)
           /\ row_ids[i] # row_ids[j]
           /\ col_ids[i] # col_ids[j]

(* The relation classes of a pair and the label of each.                   *)
Classes == {"meta_or_same_cell", "meta_to_cell", "cell_to_meta", "same_row",
            "same_col", "unrelated_cell", "unmatched"}
ClassOf(i, j) ==
    IF Meta(i) /\ Meta(j) THEN "meta_or_same_cell"
    ELSE IF Meta(i) /\ Cell(j) THEN "meta_to_cell"
    ELSE IF Cell(i) /\ Meta(j) THEN "cell_to_meta"
    ELSE IF ~(Cell(i) /\ Cell(j)) THEN "unmatched"
    ELSE IF SameRow(i, j) /\ SameCol(i, j) THEN "meta_or_same_cell"
    ELSE IF SameRow(i, j) THEN "same_row"
    ELSE IF SameCol(i, j) THEN "same_col"
    ELSE "unrelated_cell"
LabelOf(cls) ==
    CASE cls = "meta_or_same_cell" -> -1
      [] cls = "meta_to_cell" -> num_buckets - 5
      [] cls = "cell_to_meta" -> num_buckets - 4
      [] cls = "same_row" -> num_buckets - 3
      [] cls = "same_col" -> num_buckets - 2
      [] cls = "unrelated_cell" -> num_buckets - 1
      [] cls = "unmatched" -> 0

(* C10: with num_buckets >= 6 the label determines the relation class: an  *)
(* entry that equals the label of a class belongs to a pair of that class, *)
(* so two pairs with one label are in one class, and 0 is the label of     *)
(* unmatched pairs only.                                                   *)
C10_LabelDeterminesClass ==
    (Returned /\ num_buckets >= 6) =>
        \A i \in Pos, j \in Pos :
            /\ \A cls \in Classes :
                   positional_buckets[i][j] = LabelOf(cls) => ClassOf(i, j) = cls
            /\ \E cls \in Classes : positional_buckets[i][j] = LabelOf(cls)

(* A returned call with the smallest valid num_buckets, where the          *)
(* meta-to-cell label is 1, next to the default 0.                         *)
C10_Witness ==
    /\ pc = "returned"
    /\ num_buckets = 6
    /\ \E i \in Pos, j \in Pos :
           positional_buckets[i][j] = 1 /\ ClassOf(i, j) = "meta_to_cell"

====
